---- MODULE Spec2Model ----
(***************************************************************************)
(* A model of simpledb's Database (src/src/database.rs): five typed        *)
(* collections (map, set, list, sorted list, sorted set) kept in one       *)
(* bytewise-ordered key-value store.                                       *)
(*                                                                         *)
(* The store `rocksdb` holds two disjoint key families, meta keys          *)
(* (PREFIX_META || user key) and data keys (PREFIX_DATA || id || tail).    *)
(* They are modelled as two variables: `metas`, indexed by the user key    *)
(* and holding the decoded KeyMeta, and `data`, indexed by the full data   *)
(* key as a sequence of bytes.  Every meta key sorts after every data key, *)
(* so an iterator that runs off the data keys meets a key without the data *)
(* prefix, which the code treats like the end of the iteration.            *)
(*                                                                         *)
(* crate::codec is not part of the sources; its operators are modelled     *)
(* from the key layout of the specification (sections 4.1 and 6).          *)
(***************************************************************************)
EXTENDS Integers, Sequences, FiniteSets, TLC

VARIABLES
    metas,        \* rocksdb, meta family: user key -> KeyMeta
    data,         \* rocksdb, data family: data key (bytes) -> value (bytes)
    next_key_id,  \* Database.next_key_id
    options,      \* Database.options
    last,         \* the last completed operation and what it returned
    deque,        \* per user key, the abstract double-ended queue of its list
    gone,         \* per user key, the id of the meta it lost last, and to what
    pc,           \* per thread, its position inside get_or_create_meta
    locals        \* per thread, the locals of its get_or_create_meta

vars == <<metas, data, next_key_id, options, last, deque, gone, pc, locals>>

-----------------------------------------------------------------------------
(* Bounds of the model *)

MaxId == 3        \* ids handed out per behaviour
MaxCount == 2     \* items per logical key

MaxSeq == MaxCount       \* sorted-list sequence numbers per meta
MaxPos == MaxCount       \* list positions stay within -MaxPos .. MaxPos + 1

-----------------------------------------------------------------------------
(* Inputs *)

Keys == {<<97>>, <<98>>}                     \* user keys "a", "b"
OneKey == {<<97>>}
Vals == {<<>>, <<120>>}                      \* fields, members, values
OneVal == {<<120>>}
Scores == {<<>>, <<1>>, <<2>>, <<1, 0>>}     \* score byte strings
OneScore == {<<1>>}
Threads == {1, 2}

-----------------------------------------------------------------------------
(* crate::codec, from the specification *)

PREFIX_DATA == <<100, 58>>
FILL_EMPTY_DATA == <<0>>
SORTED_SET_FORWARD_TAG == <<0>>
SORTED_SET_REVERSE_TAG == <<1>>

\* n as a 64-bit two's complement big-endian integer, for |n| < 2^31
BE8(n) ==
    IF n >= 0 /\ n < 256 THEN <<0, 0, 0, 0, 0, 0, 0, n>>
    ELSE [i \in 1..8 |-> IF i <= 4 THEN (IF n < 0 THEN 255 ELSE 0)
                         ELSE (n \div (256 ^ (8 - i))) % 256]

\* position + 2^63 as an unsigned 64-bit big-endian integer
BiasBE8(p) ==
    LET b == BE8(p) IN [b EXCEPT ![1] = (@ + 128) % 256]

\* the value of the low bytes of an 8-byte big-endian integer below 2^24
UnBE8(b) == b[6] * 65536 + b[7] * 256 + b[8]

encode_data_key(id) == PREFIX_DATA \o BE8(id)

encode_data_key_map_item(id, field) == encode_data_key(id) \o field

encode_data_key_set_item(id, value) == encode_data_key(id) \o value

encode_data_key_list_item(id, position) == encode_data_key(id) \o BiasBE8(position)

encode_data_key_sorted_list_item(id, score, sequence) ==
    encode_data_key(id) \o score \o BE8(sequence)

encode_data_key_sorted_set_prefix(id) == encode_data_key(id) \o SORTED_SET_FORWARD_TAG

encode_data_key_sorted_set_item_with_score(id, score, value) ==
    encode_data_key_sorted_set_prefix(id) \o score \o value

encode_data_key_sorted_set_item_without_score(id, value) ==
    encode_data_key(id) \o SORTED_SET_REVERSE_TAG \o value

DataKeyLen == Len(PREFIX_DATA) + 8

\* the tail of a data key, after PREFIX_DATA || id
KeyTail(k) == SubSeq(k, DataKeyLen + 1, Len(k))

decode_data_key_sorted_list_item(k) == SubSeq(k, DataKeyLen + 1, Len(k) - 8)

decode_data_key_sorted_list_sequence(k) == UnBE8(SubSeq(k, Len(k) - 7, Len(k)))

decode_data_key_sorted_set_item_with_score(k, score_len) ==
    [score |-> SubSeq(k, DataKeyLen + 2, DataKeyLen + 1 + score_len),
     value |-> SubSeq(k, DataKeyLen + 2 + score_len, Len(k))]

has_prefix(prefix, k) ==
    /\ Len(prefix) <= Len(k)
    /\ SubSeq(k, 1, Len(prefix)) = prefix

\* bytewise lexicographic order, the order of the store and of the scores
LexLess(a, b) ==
    LET n == IF Len(a) <= Len(b) THEN Len(a) ELSE Len(b)
        D == {i \in 1..n : a[i] # b[i]}
    IN  IF D = {} THEN Len(a) < Len(b)
        ELSE LET i == CHOOSE x \in D : \A y \in D : x <= y
             IN  a[i] < b[i]

LexLeq(a, b) == a = b \/ LexLess(a, b)

compare_score_bytes(a, b) == IF a = b THEN 0 ELSE IF LexLess(a, b) THEN -1 ELSE 1

KeyMeta_new(id, key_type) ==
    [id |-> id, key_type |-> key_type, count |-> 0,
     extra |-> CASE key_type = "List" -> <<0, 1>>
                 [] key_type = "SortedList" -> <<0, 0, 0>>
                 [] key_type = "SortedSet" -> <<0, 0>>
                 [] OTHER -> <<>>]

-----------------------------------------------------------------------------
(* The store *)

Put(f, k, v) == [x \in DOMAIN f \cup {k} |-> IF x = k THEN v ELSE f[x]]

Delete(f, k) == [x \in DOMAIN f \ {k} |-> f[x]]

DeleteSet(f, ks) == [x \in DOMAIN f \ ks |-> f[x]]

RECURSIVE SortKeys(_)
SortKeys(S) ==
    IF S = {} THEN <<>>
    ELSE LET m == CHOOSE x \in S : \A y \in S : LexLeq(x, y)
         IN  <<m>> \o SortKeys(S \ {m})

\* the keys a forward iterator from `from` yields, in order
IterForward(d, from) == SortKeys({k \in DOMAIN d : LexLeq(from, k)})

\* the first key of a forward iterator from `from`, if it has one
NextForward(d, from) ==
    LET S == {k \in DOMAIN d : LexLeq(from, k)}
    IN  IF S = {} THEN <<>> ELSE <<CHOOSE x \in S : \A y \in S : LexLeq(x, y)>>

\* the first key of a reverse iterator from `from`, if it has one
NextReverse(d, from) ==
    LET S == {k \in DOMAIN d : LexLeq(k, from)}
    IN  IF S = {} THEN <<>> ELSE <<CHOOSE x \in S : \A y \in S : LexLeq(y, x)>>

\* the keys a reverse iterator from `from` yields: greatest first
IterReverse(d, from) ==
    LET s == SortKeys({k \in DOMAIN d : LexLeq(k, from)})
    IN  [i \in 1..Len(s) |-> s[Len(s) + 1 - i]]

\* the keys prefix_iterator visits when the callback never stops it
prefix_iterator(d, prefix) == SortKeys({k \in DOMAIN d : has_prefix(prefix, k)})

-----------------------------------------------------------------------------
(* Meta store *)

\* save_meta that writes the meta whatever its count
save_meta_never_deletes(ms, key, meta, delete_if_empty) == Put(ms, key, meta)

save_meta(ms, key, meta, delete_if_empty) ==
    \* count is unsigned: count < 1 is count = 0
    IF options.delete_meta_when_empty /\ delete_if_empty /\ meta.count = 0
    THEN Delete(ms, key)
    ELSE Put(ms, key, meta)

\* get_or_create_meta that leaves next_key_id as it is
get_or_create_meta_keeps_counter(key, key_type) ==
    IF key \in DOMAIN metas
    THEN [m |-> metas[key], metas |-> metas, next |-> next_key_id, writes |-> 0]
    ELSE LET m == KeyMeta_new(next_key_id, key_type)
         IN  [m |-> m, metas |-> save_meta(metas, key, m, FALSE),
              next |-> next_key_id, writes |-> 1]

\* get_or_create_meta: the meta, the metas and counter it leaves, and the
\* number of times it has written the meta record
get_or_create_meta(key, key_type) ==
    IF key \in DOMAIN metas
    THEN [m |-> metas[key], metas |-> metas, next |-> next_key_id, writes |-> 0]
    ELSE LET m == KeyMeta_new(next_key_id, key_type)
         IN  [m |-> m, metas |-> save_meta(metas, key, m, FALSE),
              next |-> next_key_id + 1, writes |-> 1]

\* the keys for_each_data visits
for_each_data(key) ==
    \* count is unsigned: count > 0 is count # 0
    IF key \in DOMAIN metas /\ metas[key].count # 0
    THEN prefix_iterator(data,
            IF metas[key].key_type = "SortedSet"
            THEN encode_data_key_sorted_set_prefix(metas[key].id)
            ELSE encode_data_key(metas[key].id))
    ELSE <<>>

-----------------------------------------------------------------------------
(* What an operation returned *)

NoBytes == <<>>

None == [some |-> FALSE, v |-> NoBytes]

Some(v) == [some |-> TRUE, v |-> v]

Ret(op, key) ==
    [op |-> op, key |-> key, ok |-> TRUE, some |-> FALSE, val |-> NoBytes,
     score |-> NoBytes, num |-> 0, k |-> NoBytes,
     asome |-> FALSE, aval |-> NoBytes, arg |-> None,
     list |-> <<>>, limit |-> 0, compacted |-> FALSE, meta_writes |-> 0]

\* a map or set operation tells how often it wrote or deleted the meta record
Wrote(r, n) == [r EXCEPT !.meta_writes = n]

RetSome(op, key, val) == [Ret(op, key) EXCEPT !.some = TRUE, !.val = val]

RetNum(op, key, n) == [Ret(op, key) EXCEPT !.num = n]

RetBool(op, key, b) == [Ret(op, key) EXCEPT !.some = b]

OptScores == {None} \cup {Some(s) : s \in Scores}

\* callers keep one collection type per logical key
Uses(key, key_type) == key \in DOMAIN metas => metas[key].key_type = key_type

\* a first write needs an id within the bound
CanCreate(key) == key \in DOMAIN metas \/ next_key_id <= MaxId

\* a key that has lost no meta yet
NoGone == [id |-> 0, op |-> "open"]

\* the metas a step removes are remembered, with the operation of the step
Gone ==
    gone' = [key \in Keys |->
                IF key \in DOMAIN metas /\ key \notin DOMAIN metas'
                THEN [id |-> metas[key].id, op |-> last'.op]
                ELSE gone[key]]

Sequential == UNCHANGED <<options, pc, locals>> /\ Gone

-----------------------------------------------------------------------------
(* Map *)

map_get(key, field) ==
    /\ Uses(key, "Map") /\ CanCreate(key)
    /\ LET g == get_or_create_meta(key, "Map")
           full_key == encode_data_key_map_item(g.m.id, field)
       IN  /\ metas' = g.metas
           /\ next_key_id' = g.next
           /\ last' = IF full_key \in DOMAIN data
                      THEN RetSome("map_get", key, data[full_key])
                      ELSE Ret("map_get", key)
    /\ UNCHANGED <<data, deque>>
    /\ Sequential

\* map_put that counts every put
map_put_counts_every_put(key, field, value) ==
    /\ Uses(key, "Map") /\ CanCreate(key)
    /\ LET g == get_or_create_meta(key, "Map")
           full_key == encode_data_key_map_item(g.m.id, field)
           meta == [g.m EXCEPT !.count = @ + 1]
       IN  /\ meta.count <= MaxCount
           /\ data' = Put(data, full_key, value)
           /\ metas' = save_meta(g.metas, key, meta, FALSE)
           /\ next_key_id' = g.next
           /\ last' = Wrote(Ret("map_put", key), g.writes + 1)
    /\ UNCHANGED deque
    /\ Sequential

\* map_put, whatever the type of the meta the key has
map_put_any(key, field, value) ==
    /\ CanCreate(key)
    /\ LET g == get_or_create_meta(key, "Map")
           full_key == encode_data_key_map_item(g.m.id, field)
           meta == IF full_key \notin DOMAIN data
                   THEN [g.m EXCEPT !.count = @ + 1]
                   ELSE g.m
       IN  /\ meta.count <= MaxCount
           /\ data' = Put(data, full_key, value)
           /\ metas' = save_meta(g.metas, key, meta, FALSE)
           /\ next_key_id' = g.next
           /\ last' = Wrote(Ret("map_put", key), g.writes + 1)
    /\ UNCHANGED deque
    /\ Sequential

map_put(key, field, value) == Uses(key, "Map") /\ map_put_any(key, field, value)

\* map_delete that returns true for a key without a meta
map_delete_missing_says_true(key, field) ==
    /\ Uses(key, "Map")
    /\ IF key \notin DOMAIN metas
       THEN /\ last' = RetBool("map_delete", key, TRUE)
            /\ UNCHANGED <<metas, data>>
       ELSE LET full_key == encode_data_key_map_item(metas[key].id, field)
                meta == [metas[key] EXCEPT !.count = @ - 1]
            IN  IF full_key \in DOMAIN data
                THEN /\ data' = Delete(data, full_key)
                     /\ metas' = save_meta(metas, key, meta, TRUE)
                     /\ last' = Wrote(RetBool("map_delete", key, TRUE), 1)
                ELSE /\ last' = RetBool("map_delete", key, FALSE)
                     /\ UNCHANGED <<metas, data>>
    /\ UNCHANGED <<next_key_id, deque>>
    /\ Sequential

map_delete(key, field) ==
    /\ Uses(key, "Map")
    /\ IF key \notin DOMAIN metas
       THEN /\ last' = RetBool("map_delete", key, FALSE)
            /\ UNCHANGED <<metas, data>>
       ELSE LET full_key == encode_data_key_map_item(metas[key].id, field)
                meta == [metas[key] EXCEPT !.count = @ - 1]
            IN  IF full_key \in DOMAIN data
                THEN /\ data' = Delete(data, full_key)
                     /\ metas' = save_meta(metas, key, meta, TRUE)
                     /\ last' = Wrote(RetBool("map_delete", key, TRUE), 1)
                ELSE /\ last' = RetBool("map_delete", key, FALSE)
                     /\ UNCHANGED <<metas, data>>
    /\ UNCHANGED <<next_key_id, deque>>
    /\ Sequential

-----------------------------------------------------------------------------
(* Set *)

\* set_add, whatever the type of the meta the key has
set_add_any(key, value) ==
    /\ CanCreate(key)
    /\ LET g == get_or_create_meta(key, "Set")
           full_key == encode_data_key_set_item(g.m.id, value)
           is_new_item == full_key \notin DOMAIN data
           meta == IF is_new_item THEN [g.m EXCEPT !.count = @ + 1] ELSE g.m
       IN  /\ meta.count <= MaxCount
           /\ data' = Put(data, full_key, FILL_EMPTY_DATA)
           /\ metas' = IF is_new_item
                       THEN save_meta(g.metas, key, meta, FALSE)
                       ELSE g.metas
           /\ next_key_id' = g.next
           /\ last' = Wrote(RetBool("set_add", key, is_new_item),
                            g.writes + (IF is_new_item THEN 1 ELSE 0))
    /\ UNCHANGED deque
    /\ Sequential

set_add(key, value) == Uses(key, "Set") /\ set_add_any(key, value)

set_is_member(key, value) ==
    /\ key \in DOMAIN metas
    /\ encode_data_key_set_item(metas[key].id, value) \in DOMAIN data

\* set_delete that returns true whether or not the value was a member
set_delete_says_true(key, value) ==
    /\ Uses(key, "Set")
    /\ IF key \notin DOMAIN metas
       THEN /\ last' = RetBool("set_delete", key, FALSE)
            /\ UNCHANGED <<metas, data>>
       ELSE LET full_key == encode_data_key_set_item(metas[key].id, value)
                meta == [metas[key] EXCEPT !.count = @ - 1]
            IN  IF full_key \in DOMAIN data
                THEN /\ data' = Delete(data, full_key)
                     /\ metas' = save_meta(metas, key, meta, TRUE)
                     /\ last' = Wrote(RetBool("set_delete", key, TRUE), 1)
                ELSE /\ last' = RetBool("set_delete", key, TRUE)
                     /\ UNCHANGED <<metas, data>>
    /\ UNCHANGED <<next_key_id, deque>>
    /\ Sequential

set_delete(key, value) ==
    /\ Uses(key, "Set")
    /\ IF key \notin DOMAIN metas
       THEN /\ last' = RetBool("set_delete", key, FALSE)
            /\ UNCHANGED <<metas, data>>
       ELSE LET full_key == encode_data_key_set_item(metas[key].id, value)
                meta == [metas[key] EXCEPT !.count = @ - 1]
            IN  IF full_key \in DOMAIN data
                THEN /\ data' = Delete(data, full_key)
                     /\ metas' = save_meta(metas, key, meta, TRUE)
                     /\ last' = Wrote(RetBool("set_delete", key, TRUE), 1)
                ELSE /\ last' = RetBool("set_delete", key, FALSE)
                     /\ UNCHANGED <<metas, data>>
    /\ UNCHANGED <<next_key_id, deque>>
    /\ Sequential

-----------------------------------------------------------------------------
(* delete_all *)

\* delete_all with the end of its range one id too far
delete_all_through_next_id(key) ==
    /\ IF key \in DOMAIN metas
       THEN LET ks == for_each_data(key)
                id == metas[key].id
            IN  /\ data' = DeleteSet(data,
                      {k \in DOMAIN data :
                          \/ has_prefix(encode_data_key(id), k)
                          \/ has_prefix(encode_data_key(id + 1), k)})
                /\ metas' = Delete(metas, key)
                /\ last' = RetNum("delete_all", key, Len(ks))
       ELSE /\ last' = RetNum("delete_all", key, 0)
            /\ UNCHANGED <<metas, data>>
    /\ deque' = [deque EXCEPT ![key] = <<>>]
    /\ UNCHANGED next_key_id
    /\ Sequential

delete_all(key) ==
    /\ IF key \in DOMAIN metas
       THEN LET ks == for_each_data(key)
            IN  /\ data' = DeleteSet(data, {ks[i] : i \in 1..Len(ks)})
                /\ metas' = Delete(metas, key)
                /\ last' = RetNum("delete_all", key, Len(ks))
       ELSE /\ last' = RetNum("delete_all", key, 0)
            /\ UNCHANGED <<metas, data>>
    /\ deque' = [deque EXCEPT ![key] = <<>>]
    /\ UNCHANGED next_key_id
    /\ Sequential

-----------------------------------------------------------------------------
(* List *)

\* list_left_push that stores left as it was
list_left_push_keeps_left(key, value) ==
    /\ Uses(key, "List") /\ CanCreate(key)
    /\ LET g == get_or_create_meta(key, "List")
           left == g.m.extra[1]
           right == g.m.extra[2]
           full_key == encode_data_key_list_item(g.m.id, left)
           meta == [g.m EXCEPT !.extra = <<left, right>>, !.count = @ + 1]
       IN  /\ meta.count <= MaxCount /\ left > -MaxPos
           /\ data' = Put(data, full_key, value)
           /\ metas' = save_meta(g.metas, key, meta, FALSE)
           /\ next_key_id' = g.next
           /\ last' = RetNum("list_left_push", key, meta.count)
    /\ deque' = [deque EXCEPT ![key] = <<value>> \o @]
    /\ Sequential

list_left_push(key, value) ==
    /\ Uses(key, "List") /\ CanCreate(key)
    /\ LET g == get_or_create_meta(key, "List")
           left == g.m.extra[1]
           right == g.m.extra[2]
           full_key == encode_data_key_list_item(g.m.id, left)
           meta == [g.m EXCEPT !.extra = <<left - 1, right>>, !.count = @ + 1]
       IN  /\ meta.count <= MaxCount /\ left > -MaxPos
           /\ data' = Put(data, full_key, value)
           /\ metas' = save_meta(g.metas, key, meta, FALSE)
           /\ next_key_id' = g.next
           /\ last' = RetNum("list_left_push", key, meta.count)
    /\ deque' = [deque EXCEPT ![key] = <<value>> \o @]
    /\ Sequential

list_right_push(key, value) ==
    /\ Uses(key, "List") /\ CanCreate(key)
    /\ LET g == get_or_create_meta(key, "List")
           left == g.m.extra[1]
           right == g.m.extra[2]
           full_key == encode_data_key_list_item(g.m.id, right)
           meta == [g.m EXCEPT !.extra = <<left, right + 1>>, !.count = @ + 1]
       IN  /\ meta.count <= MaxCount /\ right <= MaxPos
           /\ data' = Put(data, full_key, value)
           /\ metas' = save_meta(g.metas, key, meta, FALSE)
           /\ next_key_id' = g.next
           /\ last' = RetNum("list_right_push", key, meta.count)
    /\ deque' = [deque EXCEPT ![key] = Append(@, value)]
    /\ Sequential

\* the answer of the abstract queue to a pop, next to the answer of the code
WithAbs(r, some, val) == [r EXCEPT !.asome = some, !.aval = val]

AbsLeft(key, r) ==
    IF deque[key] = <<>> THEN WithAbs(r, FALSE, NoBytes)
    ELSE WithAbs(r, TRUE, Head(deque[key]))

AbsRight(key, r) ==
    IF deque[key] = <<>> THEN WithAbs(r, FALSE, NoBytes)
    ELSE WithAbs(r, TRUE, deque[key][Len(deque[key])])

\* what the abstract queue does on a pop from the left
AbsLeftPop(key) ==
    /\ deque' = [deque EXCEPT ![key] = IF @ = <<>> THEN @ ELSE Tail(@)]

\* what the abstract queue does on a pop from the right
AbsRightPop(key) ==
    /\ deque' = [deque EXCEPT ![key] = IF @ = <<>> THEN @ ELSE SubSeq(@, 1, Len(@) - 1)]

\* list_left_pop that never asks save_meta to delete an empty meta
list_left_pop_keeps_meta(key) ==
    /\ Uses(key, "List")
    /\ IF key \notin DOMAIN metas
       THEN /\ last' = AbsLeft(key, Ret("list_left_pop", key))
            /\ UNCHANGED <<metas, data>>
       ELSE LET left == metas[key].extra[1]
                right == metas[key].extra[2]
                full_key == encode_data_key_list_item(metas[key].id, left + 1)
                meta == [metas[key] EXCEPT !.extra = <<left + 1, right>>,
                                           !.count = @ - 1]
            IN  IF full_key \in DOMAIN data
                THEN /\ metas' = save_meta(metas, key, meta, FALSE)
                     /\ data' = Delete(data, full_key)
                     /\ last' = AbsLeft(key, RetSome("list_left_pop", key, data[full_key]))
                ELSE /\ last' = AbsLeft(key, Ret("list_left_pop", key))
                     /\ UNCHANGED <<metas, data>>
    /\ AbsLeftPop(key)
    /\ UNCHANGED next_key_id
    /\ Sequential

list_left_pop(key) ==
    /\ Uses(key, "List")
    /\ IF key \notin DOMAIN metas
       THEN /\ last' = AbsLeft(key, Ret("list_left_pop", key))
            /\ UNCHANGED <<metas, data>>
       ELSE LET left == metas[key].extra[1]
                right == metas[key].extra[2]
                full_key == encode_data_key_list_item(metas[key].id, left + 1)
                meta == [metas[key] EXCEPT !.extra = <<left + 1, right>>,
                                           !.count = @ - 1]
            IN  IF full_key \in DOMAIN data
                THEN /\ metas' = save_meta(metas, key, meta, TRUE)
                     /\ data' = Delete(data, full_key)
                     /\ last' = AbsLeft(key, RetSome("list_left_pop", key, data[full_key]))
                ELSE /\ last' = AbsLeft(key, Ret("list_left_pop", key))
                     /\ UNCHANGED <<metas, data>>
    /\ AbsLeftPop(key)
    /\ UNCHANGED next_key_id
    /\ Sequential

\* list_right_pop that reads the position right instead of right - 1
list_right_pop_reads_right(key) ==
    /\ Uses(key, "List")
    /\ IF key \notin DOMAIN metas
       THEN /\ last' = AbsRight(key, Ret("list_right_pop", key))
            /\ UNCHANGED <<metas, data>>
       ELSE LET left == metas[key].extra[1]
                right == metas[key].extra[2]
                full_key == encode_data_key_list_item(metas[key].id, right)
                meta == [metas[key] EXCEPT !.extra = <<left, right - 1>>,
                                           !.count = @ - 1]
            IN  IF full_key \in DOMAIN data
                THEN /\ metas' = save_meta(metas, key, meta, TRUE)
                     /\ data' = Delete(data, full_key)
                     /\ last' = AbsRight(key, RetSome("list_right_pop", key, data[full_key]))
                ELSE /\ last' = AbsRight(key, Ret("list_right_pop", key))
                     /\ UNCHANGED <<metas, data>>
    /\ AbsRightPop(key)
    /\ UNCHANGED next_key_id
    /\ Sequential

list_right_pop(key) ==
    /\ Uses(key, "List")
    /\ IF key \notin DOMAIN metas
       THEN /\ last' = AbsRight(key, Ret("list_right_pop", key))
            /\ UNCHANGED <<metas, data>>
       ELSE LET left == metas[key].extra[1]
                right == metas[key].extra[2]
                full_key == encode_data_key_list_item(metas[key].id, right - 1)
                meta == [metas[key] EXCEPT !.extra = <<left, right - 1>>,
                                           !.count = @ - 1]
            IN  IF full_key \in DOMAIN data
                THEN /\ metas' = save_meta(metas, key, meta, TRUE)
                     /\ data' = Delete(data, full_key)
                     /\ last' = AbsRight(key, RetSome("list_right_pop", key, data[full_key]))
                ELSE /\ last' = AbsRight(key, Ret("list_right_pop", key))
                     /\ UNCHANGED <<metas, data>>
    /\ AbsRightPop(key)
    /\ UNCHANGED next_key_id
    /\ Sequential

\* list_items: the values for_each_data visits, in order
list_items(key) ==
    LET ks == for_each_data(key) IN [i \in 1..Len(ks) |-> data[ks[i]]]

get_count(key) == IF key \in DOMAIN metas THEN metas[key].count ELSE 0

-----------------------------------------------------------------------------
(* Sorted list *)

sorted_list_add(key, score, value) ==
    /\ Uses(key, "SortedList") /\ CanCreate(key)
    /\ LET g == get_or_create_meta(key, "SortedList")
           sequence == g.m.extra[1]
           full_key == encode_data_key_sorted_list_item(g.m.id, score, sequence)
           meta == [g.m EXCEPT !.extra = <<sequence + 1, g.m.extra[2], g.m.extra[3]>>,
                               !.count = @ + 1]
       IN  /\ meta.count <= MaxCount /\ sequence < MaxSeq
           /\ data' = Put(data, full_key, value)
           /\ metas' = save_meta(g.metas, key, meta, FALSE)
           /\ next_key_id' = g.next
           /\ last' = RetNum("sorted_list_add", key, meta.count)
    /\ UNCHANGED deque
    /\ Sequential

\* sorted_list_left_pop that pops whatever max_score is
sorted_list_left_pop_ignores_max(key, max_score) ==
    /\ Uses(key, "SortedList")
    /\ IF key \notin DOMAIN metas
       THEN /\ last' = [Ret("sorted_list_left_pop", key) EXCEPT !.arg = max_score]
            /\ UNCHANGED <<metas, data>>
       ELSE LET meta == metas[key]
                sequence == meta.extra[1]
                left_deleted_count == meta.extra[2]
                right_deleted_count == meta.extra[3]
                prefix == encode_data_key(meta.id)
                iter == NextForward(data, prefix)
            IN  IF iter = <<>> \/ ~has_prefix(prefix, iter[1])
                THEN /\ last' = [Ret("sorted_list_left_pop", key) EXCEPT !.arg = max_score]
                     /\ UNCHANGED <<metas, data>>
                ELSE LET k == iter[1]
                         score == decode_data_key_sorted_list_item(k)
                         compact ==
                             /\ left_deleted_count > 0
                             /\ left_deleted_count
                                  % options.sorted_list_compact_deletes_count = 0
                         m2 == [meta EXCEPT
                                  !.count = @ - 1,
                                  !.extra = IF compact
                                            THEN <<sequence, 0, right_deleted_count>>
                                            ELSE <<sequence, left_deleted_count + 1,
                                                   right_deleted_count>>]
                     IN  IF FALSE
                         THEN /\ last' = [Ret("sorted_list_left_pop", key) EXCEPT !.arg = max_score]
                              /\ UNCHANGED <<metas, data>>
                         ELSE /\ data' = Delete(data, k)
                              /\ metas' = save_meta(metas, key, m2, TRUE)
                              /\ last' = [RetSome("sorted_list_left_pop", key, data[k])
                                             EXCEPT !.score = score, !.k = k,
                                                    !.compacted = compact,
                                                    !.arg = max_score]
    /\ UNCHANGED <<next_key_id, deque>>
    /\ Sequential

sorted_list_left_pop(key, max_score) ==
    /\ Uses(key, "SortedList")
    /\ IF key \notin DOMAIN metas
       THEN /\ last' = [Ret("sorted_list_left_pop", key) EXCEPT !.arg = max_score]
            /\ UNCHANGED <<metas, data>>
       ELSE LET meta == metas[key]
                sequence == meta.extra[1]
                left_deleted_count == meta.extra[2]
                right_deleted_count == meta.extra[3]
                prefix == encode_data_key(meta.id)
                iter == NextForward(data, prefix)
            IN  IF iter = <<>> \/ ~has_prefix(prefix, iter[1])
                THEN /\ last' = [Ret("sorted_list_left_pop", key) EXCEPT !.arg = max_score]
                     /\ UNCHANGED <<metas, data>>
                ELSE LET k == iter[1]
                         score == decode_data_key_sorted_list_item(k)
                         compact ==
                             /\ left_deleted_count > 0
                             /\ left_deleted_count
                                  % options.sorted_list_compact_deletes_count = 0
                         m2 == [meta EXCEPT
                                  !.count = @ - 1,
                                  !.extra = IF compact
                                            THEN <<sequence, 0, right_deleted_count>>
                                            ELSE <<sequence, left_deleted_count + 1,
                                                   right_deleted_count>>]
                     IN  IF max_score.some /\ compare_score_bytes(score, max_score.v) > 0
                         THEN /\ last' = [Ret("sorted_list_left_pop", key) EXCEPT !.arg = max_score]
                              /\ UNCHANGED <<metas, data>>
                         ELSE /\ data' = Delete(data, k)
                              /\ metas' = save_meta(metas, key, m2, TRUE)
                              /\ last' = [RetSome("sorted_list_left_pop", key, data[k])
                                             EXCEPT !.score = score, !.k = k,
                                                    !.compacted = compact,
                                                    !.arg = max_score]
    /\ UNCHANGED <<next_key_id, deque>>
    /\ Sequential

sorted_list_right_pop(key, min_score) ==
    /\ Uses(key, "SortedList")
    /\ IF key \notin DOMAIN metas
       THEN /\ last' = [Ret("sorted_list_right_pop", key) EXCEPT !.arg = min_score]
            /\ UNCHANGED <<metas, data>>
       ELSE LET meta == metas[key]
                sequence == meta.extra[1]
                left_deleted_count == meta.extra[2]
                right_deleted_count == meta.extra[3]
                prefix == encode_data_key(meta.id)
                next_prefix == encode_data_key(meta.id + 1)
                iter == NextReverse(data, next_prefix)
            IN  IF iter = <<>> \/ ~has_prefix(prefix, iter[1])
                THEN /\ last' = [Ret("sorted_list_right_pop", key) EXCEPT !.arg = min_score]
                     /\ UNCHANGED <<metas, data>>
                ELSE LET k == iter[1]
                         score == decode_data_key_sorted_list_item(k)
                         compact ==
                             /\ right_deleted_count > 0
                             /\ right_deleted_count
                                  % options.sorted_list_compact_deletes_count = 0
                         m2 == [meta EXCEPT
                                  !.count = @ - 1,
                                  !.extra = IF compact
                                            THEN <<sequence, left_deleted_count, 0>>
                                            ELSE <<sequence, left_deleted_count,
                                                   right_deleted_count + 1>>]
                     IN  IF min_score.some /\ compare_score_bytes(score, min_score.v) < 0
                         THEN /\ last' = [Ret("sorted_list_right_pop", key) EXCEPT !.arg = min_score]
                              /\ UNCHANGED <<metas, data>>
                         ELSE /\ data' = Delete(data, k)
                              /\ metas' = save_meta(metas, key, m2, TRUE)
                              /\ last' = [RetSome("sorted_list_right_pop", key, data[k])
                                             EXCEPT !.score = score, !.k = k,
                                                    !.compacted = compact,
                                                    !.arg = min_score]
    /\ UNCHANGED <<next_key_id, deque>>
    /\ Sequential

-----------------------------------------------------------------------------
(* Sorted set *)

\* `as u8`
U8(n) == n % 256

sorted_set_add(key, score, value) ==
    /\ Uses(key, "SortedSet") /\ CanCreate(key)
    /\ LET g == get_or_create_meta(key, "SortedSet")
           deleted_count == g.m.extra[1]
           score_len == g.m.extra[2]
           full_key1 == encode_data_key_sorted_set_item_with_score(g.m.id, score, value)
           full_key2 == encode_data_key_sorted_set_item_without_score(g.m.id, value)
           actual_len == U8(Len(score))
           meta == [g.m EXCEPT !.extra = IF score_len < 1
                                         THEN <<deleted_count, actual_len>> ELSE @,
                               !.count = @ + 1]
       IN  IF score_len >= 1 /\ score_len # actual_len
           THEN /\ metas' = g.metas
                /\ next_key_id' = g.next
                /\ last' = [Ret("sorted_set_add", key) EXCEPT !.ok = FALSE]
                /\ UNCHANGED data
           ELSE /\ meta.count <= MaxCount
                /\ data' = Put(Put(data, full_key1, FILL_EMPTY_DATA), full_key2, score)
                /\ metas' = save_meta(g.metas, key, meta, FALSE)
                /\ next_key_id' = g.next
                /\ last' = [RetNum("sorted_set_add", key, meta.count)
                                EXCEPT !.score = score, !.val = value]
    /\ UNCHANGED deque
    /\ Sequential

sorted_set_delete(key, value) ==
    /\ Uses(key, "SortedSet")
    /\ IF key \notin DOMAIN metas
       THEN /\ last' = RetBool("sorted_set_delete", key, FALSE)
            /\ UNCHANGED <<metas, data>>
       ELSE LET meta == metas[key]
                deleted_count == meta.extra[1]
                score_len == meta.extra[2]
                full_key1 == encode_data_key_sorted_set_item_without_score(meta.id, value)
            IN  IF full_key1 \notin DOMAIN data
                THEN /\ last' = RetBool("sorted_set_delete", key, FALSE)
                     /\ UNCHANGED <<metas, data>>
                ELSE LET score == data[full_key1]
                         full_key2 == encode_data_key_sorted_set_item_with_score(
                                          meta.id, score, value)
                         compact == /\ deleted_count > 0
                                    /\ deleted_count
                                         % options.sorted_list_compact_deletes_count = 0
                         m2 == [meta EXCEPT
                                  !.count = @ - 1,
                                  !.extra = IF compact THEN <<0, score_len>>
                                            ELSE <<deleted_count + 1, score_len>>]
                     IN  /\ data' = Delete(Delete(data, full_key2), full_key1)
                         /\ metas' = save_meta(metas, key, m2, TRUE)
                         /\ last' = [RetBool("sorted_set_delete", key, TRUE)
                                        EXCEPT !.val = value]
    /\ UNCHANGED <<next_key_id, deque>>
    /\ Sequential

sorted_set_is_member(key, value) ==
    /\ key \in DOMAIN metas
    /\ encode_data_key_sorted_set_item_without_score(metas[key].id, value)
          \in DOMAIN data

\* the loop of sorted_set_left over the keys ks of its iterator, from the
\* i-th on, with the pairs collected so far
RECURSIVE sorted_set_left_loop(_, _, _, _, _, _, _)
sorted_set_left_loop(ks, i, prefix, score_len, max_score, limit, list) ==
    IF i > Len(ks) \/ ~has_prefix(prefix, ks[i]) THEN list
    ELSE LET d == decode_data_key_sorted_set_item_with_score(ks[i], score_len)
         IN  IF max_score.some /\ compare_score_bytes(d.score, max_score.v) > 0
             THEN list
             ELSE IF Len(list) + 1 >= limit
             THEN Append(list, d)
             ELSE sorted_set_left_loop(ks, i + 1, prefix, score_len, max_score,
                                       limit, Append(list, d))

sorted_set_left(key, max_score, limit) ==
    /\ Uses(key, "SortedSet")
    /\ last' = [Ret("sorted_set_left", key) EXCEPT
                  !.arg = max_score, !.limit = limit,
                  !.list = IF key \notin DOMAIN metas THEN <<>>
                           ELSE LET meta == metas[key]
                                    score_len == meta.extra[2]
                                    prefix == encode_data_key_sorted_set_prefix(meta.id)
                                IN  sorted_set_left_loop(IterForward(data, prefix), 1,
                                        prefix, score_len, max_score, limit, <<>>)]
    /\ UNCHANGED <<metas, data, next_key_id, deque>>
    /\ Sequential

\* the loop of sorted_set_right, as sorted_set_left_loop
RECURSIVE sorted_set_right_loop(_, _, _, _, _, _, _)
sorted_set_right_loop(ks, i, prefix, score_len, min_score, limit, list) ==
    IF i > Len(ks) \/ ~has_prefix(prefix, ks[i]) THEN list
    ELSE LET d == decode_data_key_sorted_set_item_with_score(ks[i], score_len)
         IN  IF min_score.some /\ compare_score_bytes(d.score, min_score.v) < 0
             THEN list
             ELSE IF Len(list) + 1 >= limit
             THEN Append(list, d)
             ELSE sorted_set_right_loop(ks, i + 1, prefix, score_len, min_score,
                                        limit, Append(list, d))

sorted_set_right(key, min_score, limit) ==
    /\ Uses(key, "SortedSet")
    /\ last' = [Ret("sorted_set_right", key) EXCEPT
                  !.arg = min_score, !.limit = limit,
                  !.list = IF key \notin DOMAIN metas THEN <<>>
                           ELSE LET meta == metas[key]
                                    score_len == meta.extra[2]
                                    prefix == encode_data_key_sorted_set_prefix(meta.id)
                                    next_prefix ==
                                        encode_data_key_sorted_set_prefix(meta.id + 1)
                                IN  sorted_set_right_loop(IterReverse(data, next_prefix),
                                        1, prefix, score_len, min_score, limit, <<>>)]
    /\ UNCHANGED <<metas, data, next_key_id, deque>>
    /\ Sequential

-----------------------------------------------------------------------------
(* The database, one operation at a time *)

KeyTypes == {"Map", "Set", "List", "SortedList", "SortedSet"}

Idle == [t \in Threads |-> "idle"]

NoLocals == [t \in Threads |-> [key |-> NoBytes, key_type |-> "Map", id |-> 0, next |-> 0]]

\* open_with_options on an empty directory, with one of the given
\* sorted_list_compact_deletes_count
Open(counts) ==
    /\ metas = <<>>
    /\ data = <<>>
    /\ next_key_id = 1
    /\ options \in [sorted_list_compact_deletes_count : counts,
                    delete_meta_when_empty : BOOLEAN]
    /\ last = Ret("open", NoBytes)
    /\ deque = [key \in Keys |-> <<>>]
    /\ gone = [key \in Keys |-> NoGone]
    /\ pc = Idle
    /\ locals = NoLocals

Init == Open({1})

\* no logical key holds more than n items
AtMost(n) == \A key \in DOMAIN metas : metas[key].count <= n

\* the logical keys hold fewer items here than in the specifications of
\* one collection below
Small == AtMost(MaxCount - 1)

\* every operation, on two logical keys, with one value and one score
Next ==
    \/ \E key \in Keys, field \in OneVal : map_get(key, field)
    \/ \E key \in Keys, field \in OneVal, value \in OneVal :
          map_put(key, field, value) /\ Small'
    \/ \E key \in Keys, field \in OneVal : map_delete(key, field)
    \/ \E key \in Keys, value \in OneVal : set_add(key, value) /\ Small'
    \/ \E key \in Keys, value \in OneVal : set_delete(key, value)
    \/ \E key \in Keys, value \in OneVal : list_left_push(key, value) /\ Small'
    \/ \E key \in Keys, value \in OneVal : list_right_push(key, value) /\ Small'
    \/ \E key \in Keys : list_left_pop(key)
    \/ \E key \in Keys : list_right_pop(key)
    \/ \E key \in Keys, score \in OneScore, value \in OneVal :
          sorted_list_add(key, score, value) /\ Small'
    \/ \E key \in Keys, max_score \in {None} \cup {Some(s) : s \in OneScore} :
          sorted_list_left_pop(key, max_score)
    \/ \E key \in Keys, min_score \in {None} \cup {Some(s) : s \in OneScore} :
          sorted_list_right_pop(key, min_score)
    \/ \E key \in Keys, score \in OneScore, value \in OneVal :
          sorted_set_add(key, score, value) /\ Small'
    \/ \E key \in Keys, value \in OneVal : sorted_set_delete(key, value)
    \/ \E key \in Keys : delete_all(key)

Spec == Init /\ [][Next]_vars

-----------------------------------------------------------------------------
(* A list alone *)

NextList ==
    \/ \E key \in OneKey, value \in Vals : list_left_push(key, value)
    \/ \E key \in OneKey, value \in Vals : list_right_push(key, value)
    \/ \E key \in OneKey : list_left_pop(key)
    \/ \E key \in OneKey : list_right_pop(key)

SpecList == Init /\ [][NextList]_vars

-----------------------------------------------------------------------------
(* A sorted list alone *)

NextSortedList ==
    \/ \E key \in OneKey, score \in Scores, value \in OneVal :
          sorted_list_add(key, score, value)
    \/ \E key \in OneKey, max_score \in OptScores : sorted_list_left_pop(key, max_score)
    \/ \E key \in OneKey, min_score \in OptScores : sorted_list_right_pop(key, min_score)

SpecSortedList == Open({1, 2}) /\ [][NextSortedList]_vars

-----------------------------------------------------------------------------
(* A sorted set alone *)

NextSortedSet ==
    \/ \E key \in OneKey, score \in {<<>>, <<1>>, <<2>>}, value \in Vals :
          sorted_set_add(key, score, value)
    \/ \E key \in OneKey, value \in Vals : sorted_set_delete(key, value)

SpecSortedSet == Open({1}) /\ [][NextSortedSet]_vars

-----------------------------------------------------------------------------
(* A sorted set and its two scans *)

ShortScores == {<<1>>, <<2>>}

OptShortScores == {None} \cup {Some(s) : s \in ShortScores}

Limits == 1..MaxCount

NextSortedSetScan ==
    \/ \E key \in OneKey, score \in ShortScores, value \in Vals :
          sorted_set_add(key, score, value)
    \/ \E key \in OneKey, value \in Vals : sorted_set_delete(key, value)
    \/ \E key \in OneKey, max_score \in OptShortScores, limit \in Limits :
          sorted_set_left(key, max_score, limit)
    \/ \E key \in OneKey, min_score \in OptShortScores, limit \in Limits :
          sorted_set_right(key, min_score, limit)

SpecSortedSetScan == Open({1}) /\ [][NextSortedSetScan]_vars

-----------------------------------------------------------------------------
(* A sorted set that only grows, by members it does not hold yet, and its  *)
(* scan from the left.  One of the scores is as long as a u8 can not tell  *)
(* from the empty one.                                                     *)

LongScore == [i \in 1..256 |-> 7]

GrowScores == ShortScores \cup {LongScore}

NextSortedSetGrow ==
    \/ \E key \in OneKey, score \in GrowScores, value \in Vals :
          ~sorted_set_is_member(key, value) /\ sorted_set_add(key, score, value)
    \/ \E key \in OneKey, max_score \in OptShortScores, limit \in Limits :
          sorted_set_left(key, max_score, limit)

SpecSortedSetGrow == Open({1}) /\ [][NextSortedSetGrow]_vars

-----------------------------------------------------------------------------
(* Maps alone *)

NextMap ==
    \/ \E key \in Keys, field \in Vals : map_get(key, field)
    \/ \E key \in Keys, field \in Vals, value \in Vals : map_put(key, field, value)
    \/ \E key \in Keys, field \in Vals : map_delete(key, field)

SpecMap == Init /\ [][NextMap]_vars

-----------------------------------------------------------------------------
(* Sets alone *)

NextSet ==
    \/ \E key \in Keys, value \in Vals : set_add(key, value)
    \/ \E key \in Keys, value \in Vals : set_delete(key, value)

SpecSet == Init /\ [][NextSet]_vars

-----------------------------------------------------------------------------
(* Every operation, on one logical key *)

OptOneScore == {None} \cup {Some(s) : s \in OneScore}

NextOneKey ==
    \/ \E key \in OneKey, field \in OneVal : map_get(key, field)
    \/ \E key \in OneKey, field \in OneVal, value \in OneVal : map_put(key, field, value)
    \/ \E key \in OneKey, field \in OneVal : map_delete(key, field)
    \/ \E key \in OneKey, value \in OneVal : set_add(key, value)
    \/ \E key \in OneKey, value \in OneVal : set_delete(key, value)
    \/ \E key \in OneKey, value \in OneVal : list_left_push(key, value)
    \/ \E key \in OneKey, value \in OneVal : list_right_push(key, value)
    \/ \E key \in OneKey : list_left_pop(key)
    \/ \E key \in OneKey : list_right_pop(key)
    \/ \E key \in OneKey, score \in OneScore, value \in OneVal :
          sorted_list_add(key, score, value)
    \/ \E key \in OneKey, max_score \in OptOneScore : sorted_list_left_pop(key, max_score)
    \/ \E key \in OneKey, min_score \in OptOneScore : sorted_list_right_pop(key, min_score)
    \/ \E key \in OneKey, score \in OneScore, value \in OneVal :
          sorted_set_add(key, score, value)
    \/ \E key \in OneKey, value \in OneVal : sorted_set_delete(key, value)
    \/ \E key \in OneKey, max_score \in OptOneScore, limit \in Limits :
          sorted_set_left(key, max_score, limit)
    \/ \E key \in OneKey, min_score \in OptOneScore, limit \in Limits :
          sorted_set_right(key, min_score, limit)
    \/ \E key \in OneKey : delete_all(key)

SpecOneKey == Init /\ [][NextOneKey]_vars

-----------------------------------------------------------------------------
(* A list whose pop from the left is taken one write to the store at a     *)
(* time: list_left_pop first saves the meta, then deletes the record.      *)

Caller == 1

\* list_left_pop up to and including self.save_meta(key, &meta, true)
list_left_pop_save_meta(key) ==
    /\ pc[Caller] = "idle"
    /\ Uses(key, "List")
    /\ IF key \notin DOMAIN metas
       THEN /\ last' = AbsLeft(key, Ret("list_left_pop", key))
            /\ AbsLeftPop(key)
            /\ UNCHANGED <<metas, pc, locals>>
       ELSE LET left == metas[key].extra[1]
                right == metas[key].extra[2]
                full_key == encode_data_key_list_item(metas[key].id, left + 1)
                meta == [metas[key] EXCEPT !.extra = <<left + 1, right>>,
                                           !.count = @ - 1]
            IN  IF full_key \in DOMAIN data
                THEN /\ metas' = save_meta(metas, key, meta, TRUE)
                     /\ pc' = [pc EXCEPT ![Caller] = "delete"]
                     /\ locals' = [locals EXCEPT ![Caller] =
                                      [key |-> key, key_type |-> "List",
                                       id |-> metas[key].id, next |-> left + 1]]
                     /\ UNCHANGED <<last, deque>>
                ELSE /\ last' = AbsLeft(key, Ret("list_left_pop", key))
                     /\ AbsLeftPop(key)
                     /\ UNCHANGED <<metas, pc, locals>>
    /\ UNCHANGED <<data, next_key_id, options>>
    /\ Gone

\* list_left_pop from self.rocksdb.delete(full_key) on
list_left_pop_delete ==
    /\ pc[Caller] = "delete"
    /\ LET key == locals[Caller].key
           full_key == encode_data_key_list_item(locals[Caller].id, locals[Caller].next)
       IN  /\ data' = Delete(data, full_key)
           /\ last' = AbsLeft(key, RetSome("list_left_pop", key, data[full_key]))
           /\ AbsLeftPop(key)
    /\ pc' = [pc EXCEPT ![Caller] = "idle"]
    /\ locals' = NoLocals
    /\ UNCHANGED <<metas, next_key_id, options>>
    /\ Gone

NextListSteps ==
    \/ \E key \in OneKey, value \in Vals :
          pc[Caller] = "idle" /\ list_left_push(key, value)
    \/ \E key \in OneKey, value \in Vals :
          pc[Caller] = "idle" /\ list_right_push(key, value)
    \/ \E key \in OneKey : list_left_pop_save_meta(key)
    \/ list_left_pop_delete

SpecListSteps == Init /\ [][NextListSteps]_vars

-----------------------------------------------------------------------------
(* A sorted set and its two scans, with every limit from 0 on *)

LimitsFromZero == 0..MaxCount

NextSortedSetLimit ==
    \/ \E key \in OneKey, score \in ShortScores, value \in Vals :
          sorted_set_add(key, score, value)
    \/ \E key \in OneKey, max_score \in OptShortScores, limit \in LimitsFromZero :
          sorted_set_left(key, max_score, limit)
    \/ \E key \in OneKey, min_score \in OptShortScores, limit \in LimitsFromZero :
          sorted_set_right(key, min_score, limit)

SpecSortedSetLimit == Open({1}) /\ [][NextSortedSetLimit]_vars

-----------------------------------------------------------------------------
(* A sorted list next to a set: two logical keys, whose ids follow each    *)
(* other, one holding a sorted list and the other a set.                   *)

NextSortedListBySet ==
    \/ \E key \in Keys, score \in OneScore, value \in OneVal :
          sorted_list_add(key, score, value)
    \/ \E key \in Keys, min_score \in OptOneScore :
          sorted_list_right_pop(key, min_score)
    \/ \E key \in Keys, value \in Vals : set_add(key, value)
    \/ \E key \in Keys, value \in Vals : set_delete(key, value)

SpecSortedListBySet == Init /\ [][NextSortedListBySet]_vars

-----------------------------------------------------------------------------
(* Callers that use one logical key as a map and as a set *)

NextMixedTypes ==
    \/ \E key \in Keys, field \in Vals, value \in Vals : map_put_any(key, field, value)
    \/ \E key \in Keys, value \in Vals : set_add_any(key, value)

SpecMixedTypes == Init /\ [][NextMixedTypes]_vars

-----------------------------------------------------------------------------
(* Closing the database and opening it again *)

\* after_open: for_each_key visits the metas in the order of their keys
after_open ==
    LET ks == SortKeys(DOMAIN metas)
        last_key_id == IF ks = <<>> THEN 0 ELSE metas[ks[Len(ks)]].id
    IN  last_key_id + 1

open_with_options ==
    /\ next_key_id' = after_open
    /\ last' = Ret("open", NoBytes)
    /\ UNCHANGED <<metas, data, deque>>
    /\ Sequential

NextReopen ==
    \/ open_with_options
    \/ \E key \in Keys, value \in OneVal : set_add(key, value)
    \/ \E key \in Keys, value \in OneVal : set_delete(key, value)
    \/ \E key \in Keys : delete_all(key)

SpecReopen == Init /\ [][NextReopen]_vars

-----------------------------------------------------------------------------
(* Two threads, each in get_or_create_meta for a key of its own that has  *)
(* no meta.  next_key_id is a Cell: its get and set are a plain load and   *)
(* a plain store, and the threads' loads and stores interleave.            *)

ThreadKey(t) == IF t = 1 THEN <<97>> ELSE <<98>>

\* the store holds no meta, or one for the key of thread 1; `last` keeps
\* the counter the threads start from and whether both keys were absent
InitThreads ==
    /\ data = <<>>
    /\ next_key_id \in 1..MaxId
    /\ \E present \in BOOLEAN :
          /\ present => next_key_id > 1
          /\ metas = IF present
                     THEN [key \in {ThreadKey(1)} |->
                              KeyMeta_new(next_key_id - 1, "Set")]
                     ELSE <<>>
          /\ last = [RetNum("open", NoBytes, next_key_id) EXCEPT !.some = ~present]
    /\ options \in [sorted_list_compact_deletes_count : {1},
                    delete_meta_when_empty : BOOLEAN]
    /\ deque = [key \in Keys |-> <<>>]
    /\ gone = [key \in Keys |-> NoGone]
    /\ pc = [t \in Threads |-> "get_meta"]
    /\ locals \in {l \in [Threads -> [key : Keys, key_type : KeyTypes,
                                       id : {0}, next : {0}]] :
                      \A t \in Threads : l[t].key = ThreadKey(t)}

Concurrent == UNCHANGED <<data, options, last, deque>> /\ Gone

\* let m = self.get_meta(key)?
thread_get_meta(t) ==
    /\ pc[t] = "get_meta"
    /\ IF locals[t].key \in DOMAIN metas
       THEN /\ pc' = [pc EXCEPT ![t] = "done"]
            /\ locals' = [locals EXCEPT ![t].id = metas[locals[t].key].id]
       ELSE /\ pc' = [pc EXCEPT ![t] = "new"]
            /\ UNCHANGED locals
    /\ UNCHANGED <<metas, next_key_id>>
    /\ Concurrent

\* KeyMeta::new(self.next_key_id.get(), key_type)
thread_new(t) ==
    /\ pc[t] = "new"
    /\ locals' = [locals EXCEPT ![t].id = next_key_id]
    /\ pc' = [pc EXCEPT ![t] = "get"]
    /\ UNCHANGED <<metas, next_key_id>>
    /\ Concurrent

\* self.next_key_id.get() + 1
thread_get(t) ==
    /\ pc[t] = "get"
    /\ locals' = [locals EXCEPT ![t].next = next_key_id + 1]
    /\ pc' = [pc EXCEPT ![t] = "set"]
    /\ UNCHANGED <<metas, next_key_id>>
    /\ Concurrent

\* self.next_key_id.set(...)
thread_set(t) ==
    /\ pc[t] = "set"
    /\ next_key_id' = locals[t].next
    /\ pc' = [pc EXCEPT ![t] = "save"]
    /\ UNCHANGED <<metas, locals>>
    /\ Concurrent

\* self.save_meta(key, &m, false)
thread_save(t) ==
    /\ pc[t] = "save"
    /\ metas' = save_meta(metas, locals[t].key,
                          KeyMeta_new(locals[t].id, locals[t].key_type), FALSE)
    /\ pc' = [pc EXCEPT ![t] = "done"]
    /\ UNCHANGED <<next_key_id, locals>>
    /\ Concurrent

NextThreads ==
    \E t \in Threads :
        \/ thread_get_meta(t)
        \/ thread_new(t)
        \/ thread_get(t)
        \/ thread_set(t)
        \/ thread_save(t)

SpecThreads == InitThreads /\ [][NextThreads]_vars

-----------------------------------------------------------------------------
(* What the properties read off the store *)

\* the data records under an id
DataUnder(id) == {k \in DOMAIN data : has_prefix(encode_data_key(id), k)}

\* the forward records of the sorted set with this id
ForwardUnder(id) ==
    {k \in DOMAIN data : has_prefix(encode_data_key_sorted_set_prefix(id), k)}

\* the reverse records of the sorted set with this id
ReverseUnder(id) ==
    {k \in DOMAIN data :
        has_prefix(encode_data_key(id) \o SORTED_SET_REVERSE_TAG, k)}

\* the member a reverse record is about
ReverseValue(k) == SubSeq(k, DataKeyLen + 2, Len(k))

LiveIds == {metas[key].id : key \in DOMAIN metas}

MaxLiveId == IF LiveIds = {} THEN 0 ELSE CHOOSE i \in LiveIds : \A j \in LiveIds : j <= i

IsDone == \A t \in Threads : pc[t] = "done"

\* the members of the sorted set with this id, as its reverse records tell
Members(id) ==
    {[score |-> data[r], value |-> ReverseValue(r)] : r \in ReverseUnder(id)}

\* a sorted set that holds one forward and one reverse record per counted
\* member
CleanSortedSet(key) ==
    /\ key \in DOMAIN metas
    /\ metas[key].key_type = "SortedSet"
    /\ metas[key].count = Cardinality(ReverseUnder(metas[key].id))
    /\ metas[key].count = Cardinality(ForwardUnder(metas[key].id))

\* the finite map a logical key stands for: its fields and their values
MapOf(key) ==
    IF key \notin DOMAIN metas THEN [f \in {} |-> NoBytes]
    ELSE [f \in {KeyTail(k) : k \in DataUnder(metas[key].id)} |->
             data[encode_data_key_map_item(metas[key].id, f)]]

\* the members a logical key holds as a set
SetOf(key) ==
    IF key \notin DOMAIN metas THEN {}
    ELSE {KeyTail(k) : k \in DataUnder(metas[key].id)}

\* the scores of the items a sorted list holds
StoredScores(key) ==
    IF key \notin DOMAIN metas THEN {}
    ELSE {decode_data_key_sorted_list_item(k) : k \in DataUnder(metas[key].id)}

Min(a, b) == IF a <= b THEN a ELSE b

\* the elements of a sequence are pairwise different
NoRepeats(q) == \A i, j \in 1..Len(q) : q[i] = q[j] => i = j

-----------------------------------------------------------------------------
(* Properties *)

\* C1: for every live meta, count is the number of data records under its
\* id; for a sorted set it is the number of forward records and also the
\* number of reverse records.
C1_CountMatchesRecords ==
    \A key \in DOMAIN metas :
        LET m == metas[key]
        IN  IF m.key_type = "SortedSet"
            THEN /\ m.count = Cardinality(ForwardUnder(m.id))
                 /\ m.count = Cardinality(ReverseUnder(m.id))
            ELSE m.count = Cardinality(DataUnder(m.id))

\* C2: right after open, next_key_id is the greatest id of a surviving meta
\* plus one.
C2_OpenSeedsAboveMaxId == last.op = "open" => next_key_id = MaxLiveId + 1

\* C3: when two threads have created the metas of two keys that were both
\* absent, the two metas have different ids and next_key_id has advanced by
\* exactly 2.
C3_ConcurrentCreateDistinctIds ==
    (IsDone /\ last.some) =>
        /\ metas[ThreadKey(1)].id # metas[ThreadKey(2)].id
        /\ next_key_id = last.num + 2

\* C4: no two live metas share an id, every live id is below next_key_id,
\* and next_key_id never decreases.
C4_IdsUnique ==
    \A k1 \in DOMAIN metas :
        /\ metas[k1].id < next_key_id
        /\ \A k2 \in DOMAIN metas : k1 # k2 => metas[k1].id # metas[k2].id

C4_IdsUniqueAndMonotone == []C4_IdsUnique /\ [][next_key_id' >= next_key_id]_vars

\* C4 witness: both keys are live under different ids after an id was retired
C4_Witness ==
    /\ Cardinality(DOMAIN metas) = 2
    /\ Cardinality(LiveIds) = 2
    /\ next_key_id = MaxId + 1

\* C5: in a sorted set the forward records are exactly the records
\* (score, v) for the reverse records v -> score: every member has one
\* forward record, the one with the score its reverse record stores, and no
\* forward record is without its reverse record.
C5_ForwardMatchesReverse ==
    \A key \in DOMAIN metas :
        metas[key].key_type = "SortedSet" =>
            ForwardUnder(metas[key].id) =
                {encode_data_key_sorted_set_item_with_score(
                     metas[key].id, data[r], ReverseValue(r)) :
                 r \in ReverseUnder(metas[key].id)}

\* C6: the item sorted_list_left_pop(None) returns has a score bytewise no
\* greater than the score of every item left, and among equal scores it is
\* the one added first.
C6_LeftPopInScoreOrder ==
    (last.op = "sorted_list_left_pop" /\ last.some /\ ~last.arg.some) =>
        \A k \in DataUnder(UnBE8(SubSeq(last.k, Len(PREFIX_DATA) + 1, DataKeyLen))) :
            LET score == decode_data_key_sorted_list_item(k)
            IN  \/ LexLess(last.score, score)
                \/ /\ last.score = score
                   /\ decode_data_key_sorted_list_sequence(last.k)
                        < decode_data_key_sorted_list_sequence(k)

\* C7: a list is a double-ended queue: list_items is the abstract queue
\* from left to right, list_count is its length, and a pop returns what the
\* abstract pop returns.
C7_ListIsDeque ==
    /\ \A key \in OneKey :
          /\ list_items(key) = deque[key]
          /\ get_count(key) = Len(deque[key])
    /\ last.op \in {"list_left_pop", "list_right_pop"} =>
          /\ last.some = last.asome
          /\ last.val = last.aval

\* C7 witness: a pop from the right has returned an item and has left, at
\* a position below zero, an item with another value
C7_Witness ==
    /\ last.op = "list_right_pop" /\ last.some
    /\ last.key \in DOMAIN metas
    /\ metas[last.key].extra[1] < -1
    /\ Len(deque[last.key]) = 1
    /\ deque[last.key][1] # last.val

\* C8: for every live list meta, count = right - left - 1 and the positions
\* that hold a record are exactly left + 1 .. right - 1.
C8_ListRangeContiguous ==
    \A key \in DOMAIN metas :
        metas[key].key_type = "List" =>
            LET left == metas[key].extra[1]
                right == metas[key].extra[2]
            IN  /\ metas[key].count = right - left - 1
                /\ DataUnder(metas[key].id) =
                      {encode_data_key_list_item(metas[key].id, p) :
                           p \in (left + 1)..(right - 1)}

\* C8 witness: after pushes and a pop, a list whose only record is at
\* position -1
C8_Witness ==
    /\ last.op \in {"list_left_pop", "list_right_pop"} /\ last.some
    /\ \E key \in DOMAIN metas :
          /\ metas[key].key_type = "List"
          /\ metas[key].extra = <<-2, 0>>
          /\ DataUnder(metas[key].id) = {encode_data_key_list_item(metas[key].id, -1)}

\* C9: all the scores a sorted set has accepted have the same length.
C9_OneScoreLength ==
    \A key \in DOMAIN metas :
        metas[key].key_type = "SortedSet" =>
            \A r1, r2 \in ReverseUnder(metas[key].id) : Len(data[r1]) = Len(data[r2])

\* C10: delete_all on a live key leaves no data record under the key's id,
\* removes the meta, and returns the number of data records there were
\* under that id.
C10_DeleteAllStep ==
    \A key \in DOMAIN metas :
        (last'.op = "delete_all" /\ last'.key = key /\ delete_all(key)) =>
            /\ key \notin DOMAIN metas'
            /\ \A k \in DOMAIN data' : ~has_prefix(encode_data_key(metas[key].id), k)
            /\ last'.num = Cardinality(DataUnder(metas[key].id))

C10_DeleteAllLeavesNothing == [][C10_DeleteAllStep]_vars

\* C11: sorted_set_right with limit >= 1 on a sorted set with members
\* returns members in non-increasing score order from the highest-scored
\* one on, as many as the limit and min_score allow.
C11_RightFromHighest ==
    (/\ last.op = "sorted_set_right"
     /\ CleanSortedSet(last.key)
     /\ metas[last.key].count > 0) =>
        LET M == Members(metas[last.key].id)
            Q == {m \in M : ~(/\ last.arg.some
                              /\ compare_score_bytes(m.score, last.arg.v) < 0)}
            list == last.list
        IN  /\ Len(list) = Min(last.limit, Cardinality(Q))
            /\ NoRepeats(list)
            /\ \A i \in 1..Len(list) : list[i] \in Q
            /\ \A i \in 1..(Len(list) - 1) :
                  compare_score_bytes(list[i].score, list[i + 1].score) >= 0
            /\ list # <<>> =>
                  \A m \in M : compare_score_bytes(m.score, list[1].score) <= 0

\* C12: on a sorted set built by sorted_set_add of distinct values with
\* scores of one length, sorted_set_left with limit >= count returns one
\* pair per member whose score is not above max_score, in non-decreasing
\* score order.
C12_LeftInScoreOrder ==
    (/\ last.op = "sorted_set_left"
     /\ CleanSortedSet(last.key)
     /\ \A m1, m2 \in Members(metas[last.key].id) : Len(m1.score) = Len(m2.score)
     /\ last.limit >= metas[last.key].count) =>
        LET M == Members(metas[last.key].id)
            Q == {m \in M : ~(/\ last.arg.some
                              /\ compare_score_bytes(m.score, last.arg.v) > 0)}
            list == last.list
        IN  /\ Len(list) = Cardinality(Q)
            /\ NoRepeats(list)
            /\ \A i \in 1..Len(list) : list[i] \in Q
            /\ \A i \in 1..(Len(list) - 1) :
                  compare_score_bytes(list[i].score, list[i + 1].score) <= 0

\* C12 on scores of one byte: the same statement as C12_LeftInScoreOrder
C12_LeftInScoreOrderShort ==
    (\A m \in Members(metas[last.key].id) : m.score \in ShortScores)
        => C12_LeftInScoreOrder

\* C13: a map is a finite map.  map_put(key, field, value) binds field to
\* value, map_delete(key, field) unbinds it and tells whether it was
\* bound, map_get(key, field) returns the binding and changes none; the
\* other key's map stays as it is and map_count is the number of bound
\* fields.
C13_MapStep ==
    \A key \in Keys, field \in Vals :
        LET Frame == /\ \A other \in Keys \ {key} : MapOf(other)' = MapOf(other)
                     /\ get_count(key)' = Cardinality(DOMAIN MapOf(key)')
        IN  /\ \A value \in Vals :
                  map_put(key, field, value) =>
                      /\ MapOf(key)' = Put(MapOf(key), field, value)
                      /\ Frame
            /\ map_delete(key, field) =>
                  /\ MapOf(key)' = Delete(MapOf(key), field)
                  /\ last'.some = (field \in DOMAIN MapOf(key))
                  /\ Frame
            /\ map_get(key, field) =>
                  /\ MapOf(key)' = MapOf(key)
                  /\ last'.some = (field \in DOMAIN MapOf(key))
                  /\ last'.some => last'.val = MapOf(key)[field]
                  /\ Frame

C13_MapIsFiniteMap ==
    /\ \A key \in Keys : DOMAIN MapOf(key) = {}
    /\ [][C13_MapStep]_vars

\* C13 witness: a map_get has returned the empty value of a field of a map
\* that binds two fields
C13_Witness ==
    /\ last.op = "map_get" /\ last.some /\ last.val = <<>>
    /\ get_count(last.key) = 2
    /\ Cardinality(DOMAIN MapOf(last.key)) = 2

\* C14: set_add(key, v) returns true exactly when v was no member and
\* makes it one, set_delete(key, v) returns true exactly when v was a
\* member and removes it; after each of them set_count is the number of
\* members, set_is_member tells the members, and the other key's set is
\* as it was.
C14_SetStep ==
    \A key \in Keys, value \in Vals :
        LET Frame == /\ \A other \in Keys \ {key} : SetOf(other)' = SetOf(other)
                     /\ get_count(key)' = Cardinality(SetOf(key)')
                     /\ \A v \in Vals : set_is_member(key, v)' = (v \in SetOf(key)')
        IN  /\ set_add(key, value) =>
                  /\ last'.some = (value \notin SetOf(key))
                  /\ SetOf(key)' = SetOf(key) \cup {value}
                  /\ Frame
            /\ set_delete(key, value) =>
                  /\ last'.some = (value \in SetOf(key))
                  /\ SetOf(key)' = SetOf(key) \ {value}
                  /\ Frame

C14_SetIsFiniteSet ==
    /\ \A key \in Keys : SetOf(key) = {}
    /\ [][C14_SetStep]_vars

\* C14 witness: a set_add of a value that was a member has returned false
\* and the count is 1
C14_Witness ==
    /\ last.op = "set_add" /\ ~last.some
    /\ get_count(last.key) = 1
    /\ Cardinality(SetOf(last.key)) = 1

\* C15: a pop from a list without items, its meta absent or present with
\* count 0, returns none and leaves the metas and the data records as they
\* are; with delete_meta_when_empty, the pop that removes the last item
\* returns it and leaves the key without a meta.
C15_PopStep ==
    \A key \in OneKey :
        (list_left_pop(key) \/ list_right_pop(key)) =>
            /\ get_count(key) = 0 =>
                  /\ ~last'.some
                  /\ metas' = metas
                  /\ data' = data
            /\ (options.delete_meta_when_empty /\ get_count(key) = 1) =>
                  /\ last'.some
                  /\ key \notin DOMAIN metas'
                  /\ DataUnder(metas[key].id)' = {}

C15_PopOnEmptyList == [][C15_PopStep]_vars

\* C15 witness: a pop has returned none on a list whose meta is present
\* with count 0
C15_Witness ==
    /\ last.op \in {"list_left_pop", "list_right_pop"} /\ ~last.some
    /\ last.key \in DOMAIN metas
    /\ metas[last.key].count = 0
    /\ ~options.delete_meta_when_empty

\* C16: sorted_list_left_pop(key, Some(s)) when every stored score is
\* greater than s, and sorted_list_right_pop(key, Some(s)) when every
\* stored score is less than s, return none and leave the metas and the
\* data records as they are.
C16_BoundedPopStep ==
    \A key \in OneKey, s \in Scores :
        /\ (/\ sorted_list_left_pop(key, Some(s))
            /\ \A x \in StoredScores(key) : compare_score_bytes(x, s) > 0) =>
                /\ ~last'.some
                /\ metas' = metas
                /\ data' = data
        /\ (/\ sorted_list_right_pop(key, Some(s))
            /\ \A x \in StoredScores(key) : compare_score_bytes(x, s) < 0) =>
                /\ ~last'.some
                /\ metas' = metas
                /\ data' = data

C16_BoundedPopLeavesAll == [][C16_BoundedPopStep]_vars

\* C16 witness: a left pop with a max_score has returned none on a sorted
\* list whose two items both have a greater score
C16_Witness ==
    /\ last.op = "sorted_list_left_pop" /\ ~last.some /\ last.arg.some
    /\ last.key \in DOMAIN metas
    /\ Cardinality(DataUnder(metas[last.key].id)) = 2
    /\ \A x \in StoredScores(last.key) : compare_score_bytes(x, last.arg.v) > 0

\* the operations that take one item away
DeleteOps ==
    {"map_delete", "set_delete", "list_left_pop", "list_right_pop",
     "sorted_list_left_pop", "sorted_list_right_pop", "sorted_set_delete"}

\* C17: with delete_meta_when_empty and no reopen, an operation that takes
\* away the last counted item of a key removes the key's meta, and a meta
\* the key gets later has an id greater than the one it lost.
C17_LastItemStep ==
    options.delete_meta_when_empty =>
        \A key \in DOMAIN metas :
            (/\ last'.op \in DeleteOps /\ last'.key = key
             /\ data' # data
             /\ metas[key].count = 1) => key \notin DOMAIN metas'

C17_NewIdAboveLost ==
    options.delete_meta_when_empty =>
        \A key \in DOMAIN metas : metas[key].id > gone[key].id

C17_EmptiedKeyGetsNewId == []C17_NewIdAboveLost /\ [][C17_LastItemStep]_vars

\* C17 witness: with delete_meta_when_empty, a key that lost its meta to a
\* set_delete has a meta again
C17_Witness ==
    /\ options.delete_meta_when_empty
    /\ \E key \in DOMAIN metas :
          /\ gone[key].op = "set_delete"
          /\ gone[key].id > 0
          /\ metas[key].id > gone[key].id
          /\ metas[key].count = 1

\* C18: for a key without a meta no operation fails; the counts are 0,
\* the membership tests are false, the items are none, map_get and the
\* pops return none, the deletes return false, delete_all returns 0 and
\* the scans of a sorted set return nothing.
C18_MissingKeyReads ==
    \A key \in OneKey :
        key \notin DOMAIN metas =>
            /\ get_count(key) = 0
            /\ for_each_data(key) = <<>>
            /\ list_items(key) = <<>>
            /\ \A v \in Vals : ~set_is_member(key, v) /\ ~sorted_set_is_member(key, v)

C18_MissingKeyStep ==
    \A key \in OneKey :
        (key \notin DOMAIN metas /\ last'.key = key) =>
            /\ last'.ok
            /\ last'.op \in {"map_get", "list_left_pop", "list_right_pop",
                              "sorted_list_left_pop", "sorted_list_right_pop",
                              "map_delete", "set_delete", "sorted_set_delete"}
                  => ~last'.some
            /\ last'.op = "delete_all" => last'.num = 0
            /\ last'.op \in {"sorted_set_left", "sorted_set_right"} => last'.list = <<>>

C18_MissingKeyIsNoError == []C18_MissingKeyReads /\ [][C18_MissingKeyStep]_vars

\* C18 witness: a pop has returned none for a key that has no meta, after
\* the key had lost one
C18_Witness ==
    /\ last.op = "sorted_list_right_pop" /\ ~last.some /\ last.ok
    /\ last.key \in OneKey
    /\ last.key \notin DOMAIN metas
    /\ gone[last.key].id > 0

\* C19: in every state, between the writes of one operation as well, each
\* data record lies under the id of a meta that is there: no meta is gone
\* while a data record under its id remains.
C19_NoRecordWithoutMeta ==
    \A k \in DOMAIN data :
        \E key \in DOMAIN metas : has_prefix(encode_data_key(metas[key].id), k)

\* C20: with N = sorted_list_compact_deletes_count, a left pop that
\* removes an item requests a compaction exactly when left_deleted + 1 is a
\* multiple of N, and then stores left_deleted = 0, else left_deleted + 1;
\* likewise the right pop with right_deleted.  The left_deleted and
\* right_deleted stored for a sorted list that holds items are below N.
C20_DeletedBelowN ==
    \A key \in DOMAIN metas :
        (metas[key].key_type = "SortedList" /\ metas[key].count > 0) =>
            /\ metas[key].extra[2] < options.sorted_list_compact_deletes_count
            /\ metas[key].extra[3] < options.sorted_list_compact_deletes_count

C20_PopStep ==
    \A key \in OneKey, arg \in OptScores :
        LET N == options.sorted_list_compact_deletes_count
        IN  /\ (sorted_list_left_pop(key, arg) /\ last'.some) =>
                  LET n == metas[key].extra[2] + 1
                  IN  /\ last'.compacted = (n % N = 0)
                      /\ key \in DOMAIN metas' =>
                            metas'[key].extra[2] = IF n % N = 0 THEN 0 ELSE n
            /\ (sorted_list_right_pop(key, arg) /\ last'.some) =>
                  LET n == metas[key].extra[3] + 1
                  IN  /\ last'.compacted = (n % N = 0)
                      /\ key \in DOMAIN metas' =>
                            metas'[key].extra[3] = IF n % N = 0 THEN 0 ELSE n

C20_CompactEveryNth == [][C20_PopStep]_vars

\* C21: one call of map_put, map_delete, set_add or set_delete writes or
\* deletes the meta record of its key at most once.
C21_MetaWrittenOnce ==
    last.op \in {"map_put", "map_delete", "set_add", "set_delete"} =>
        last.meta_writes <= 1

\* C22: a read operation leaves the store as it is: the metas, the data
\* records and next_key_id are after a map_get, a sorted_set_left or a
\* sorted_set_right what they were before; a key without a meta has none
\* after the read.
C22_ReadStep ==
    last'.op \in {"map_get", "sorted_set_left", "sorted_set_right"} =>
        /\ metas' = metas
        /\ data' = data
        /\ next_key_id' = next_key_id

C22_ReadsChangeNothing == [][C22_ReadStep]_vars

\* C23: sorted_set_left and sorted_set_right return at most limit pairs,
\* for every limit from 0 on.
C23_AtMostLimit ==
    last.op \in {"sorted_set_left", "sorted_set_right"} =>
        Len(last.list) <= last.limit

\* C24: sorted_list_right_pop(key, None) on a sorted list that holds an
\* item removes and returns the item with the greatest data key, whatever
\* the other logical key holds.
C24_RightPopStep ==
    \A key \in DOMAIN metas :
        (/\ sorted_list_right_pop(key, None)
         /\ metas[key].key_type = "SortedList"
         /\ DataUnder(metas[key].id) # {}) =>
            LET S == DataUnder(metas[key].id)
                top == CHOOSE k \in S : \A x \in S : LexLeq(x, k)
            IN  /\ last'.some
                /\ last'.k = top
                /\ last'.val = data[top]
                /\ data' = Delete(data, top)

C24_RightPopTakesGreatest == [][C24_RightPopStep]_vars

\* the data records under an id, with their values
RecordsUnder(id) == [k \in DataUnder(id) |-> data[k]]

\* C25: a set_add on a key whose meta is not a set's, and a map_put on a
\* key whose meta is not a map's, leave the data records under the meta's
\* id and the meta as they are.
C25_OtherTypeStep ==
    \A key \in DOMAIN metas :
        (/\ last'.key = key
         /\ \/ last'.op = "set_add" /\ metas[key].key_type # "Set"
            \/ last'.op = "map_put" /\ metas[key].key_type # "Map") =>
            /\ RecordsUnder(metas[key].id)' = RecordsUnder(metas[key].id)
            /\ key \in DOMAIN metas'
            /\ metas'[key] = metas[key]

C25_OtherTypeWritesNothing == [][C25_OtherTypeStep]_vars

\* C26: an operation on one logical key leaves every other logical key as
\* it is: a key without a meta stays without one, and a key with a meta
\* keeps the meta and every data record under the meta's id, values
\* included.
C26_OtherKeysStep ==
    \A B \in Keys \ {last'.key} :
        IF B \in DOMAIN metas
        THEN /\ B \in DOMAIN metas'
             /\ metas'[B] = metas[B]
             /\ RecordsUnder(metas[B].id)' = RecordsUnder(metas[B].id)
        ELSE B \notin DOMAIN metas'

C26_OtherKeysUnchanged == [][C26_OtherKeysStep]_vars

\* a delete_all that removed records of its key while another key held some
C26_Witness ==
    /\ last.op = "delete_all" /\ last.num > 0
    /\ \E B \in DOMAIN metas :
          B # last.key /\ DataUnder(metas[B].id) # {}

====
